---- MODULE Spec2Model ----
(***************************************************************************)
(* "The Game": the gymnasium environment Game (reset, step) of src/main.py *)
(* and the heuristic Player.determine_best_single_card it consults.        *)
(*                                                                         *)
(* Python lists are sequences; a Python index i is position i+1 here.      *)
(* Scores are kept as exact integers, multiplied by ScoreDen = 2*98^2, so  *)
(* that 1 - gap^2/(2*98^2) is ScoreDen - gap^2.  Heuristic costs are kept  *)
(* multiplied by 10, so that the +0.1 adjustment is +1.                    *)
(***************************************************************************)
EXTENDS Integers, Sequences, FiniteSets, TLC

(***************************************************************************)
(* Bounds of the model.                                                    *)
(***************************************************************************)
\* the deck holds the first NumCards cards of 2, 12, 3, 13, 4, 14, ...
NumCards == 4
\* configurations: num_players in 1..MaxPlayers, hand_size in 1..MaxHand,
\* num_must_play in 1..MaxMustPlay, pile_config in (1..MaxUp) x (1..MaxDown)
MaxPlayers == 2
MaxHand == 2
MaxMustPlay == 2
MaxUp == 2
MaxDown == 1
\* card indices submitted range over -NegIdx .. hand_size
NegIdx == 1

(***************************************************************************)
(* Program constants.                                                      *)
(***************************************************************************)
PILE_START_UP == 1
PILE_START_DOWN == 100
TRICK == 10
NO_SCORE == 101
INVALID == -10
CANT_PLAY == -5
WIN == 1000
ScoreDen == 2 * (98 * 98)
NoCard == 0

(***************************************************************************)
(* Python list helpers.                                                    *)
(***************************************************************************)
RECURSIVE IndexOf(_, _, _)
\* list.index(v) as a position; 0 when v is not in the list
IndexOf(s, v, i) ==
  IF i > Len(s) THEN 0
  ELSE IF s[i] = v THEN i
  ELSE IndexOf(s, v, i + 1)

\* v in list
Contains(s, v) == IndexOf(s, v, 1) # 0

\* variant of ListRemove: nothing is dropped
ListRemove_Keep(s, v) == s

\* list.remove(v): drops the first occurrence of v
ListRemove(s, v) ==
  LET k == IndexOf(s, v, 1)
  IN  IF k = 0 THEN s
      ELSE [i \in 1..(Len(s) - 1) |-> IF i < k THEN s[i] ELSE s[i + 1]]

RECURSIVE Pow3(_)
Pow3(n) == IF n = 0 THEN 1 ELSE 3 * Pow3(n - 1)

\* all orders of a finite set, as sequences (random.shuffle)
Shuffles(S) ==
  {s \in [1..Cardinality(S) -> S] : \A i, j \in 1..Cardinality(S) : i # j => s[i] # s[j]}

(***************************************************************************)
(* Player.determine_best_single_card (costs times 10).                     *)
(***************************************************************************)
RECURSIVE ScanUpPiles(_, _, _, _, _)
\* the loop over up_piles for one card; cur is [score, pile]
ScanUpPiles(card, up_piles, cards_seen, cur, i) ==
  IF i > Len(up_piles) THEN cur
  ELSE
    LET pile == up_piles[i]
        claim_score == 0
        c1 == IF card = pile - TRICK
                THEN [score |-> (-10 + claim_score) * 10, pile |-> pile]
              ELSE IF card > pile
                THEN [score |-> (card - pile + claim_score) * 10, pile |-> pile]
              ELSE cur
        c2 == IF Contains(cards_seen, card - 10)
                THEN [c1 EXCEPT !.score = @ + 1]
              ELSE c1
    IN  ScanUpPiles(card, up_piles, cards_seen, c2, i + 1)

RECURSIVE ScanDownPiles_KeepsPile(_, _, _, _, _)
\* variant of ScanDownPiles: a smaller gap on a descending pile lowers cur_score
\* and leaves cur_pile as it was
ScanDownPiles_KeepsPile(card, down_piles, cards_seen, cur, i) ==
  IF i > Len(down_piles) THEN cur
  ELSE
    LET pile == down_piles[i]
        c1 == IF card = pile + TRICK
                THEN [score |-> (0 - 10) * 10, pile |-> pile]
              ELSE IF card < pile /\ cur.score > (pile - card) * 10
                THEN [score |-> (pile - card) * 10, pile |-> cur.pile]
              ELSE cur
        c2 == IF Contains(cards_seen, card + 10)
                THEN [c1 EXCEPT !.score = @ + 1]
              ELSE c1
    IN  ScanDownPiles_KeepsPile(card, down_piles, cards_seen, c2, i + 1)

RECURSIVE ScanDownPiles(_, _, _, _, _)
\* the loop over down_piles for one card
ScanDownPiles(card, down_piles, cards_seen, cur, i) ==
  IF i > Len(down_piles) THEN cur
  ELSE
    LET pile == down_piles[i]
        claim_score == 0
        c1 == IF card = pile + TRICK
                THEN [score |-> (-10 + claim_score) * 10, pile |-> pile]
              ELSE IF card < pile /\ cur.score > (pile - card) * 10
                THEN [score |-> (pile - card + claim_score) * 10, pile |-> pile]
              ELSE cur
        c2 == IF Contains(cards_seen, card + 10)
                THEN [c1 EXCEPT !.score = @ + 1]
              ELSE c1
    IN  ScanDownPiles(card, down_piles, cards_seen, c2, i + 1)

\* variant of CardCost: the loop over down_piles is left out
CardCost_UpOnly(card, up_piles, down_piles, cards_seen) ==
  ScanUpPiles(card, up_piles, cards_seen, [score |-> NO_SCORE * 10, pile |-> 101], 1)

\* cur_score, cur_pile of one card after both pile loops
CardCost(card, up_piles, down_piles, cards_seen) ==
  ScanDownPiles(card, down_piles, cards_seen,
                ScanUpPiles(card, up_piles, cards_seen,
                            [score |-> NO_SCORE * 10, pile |-> 101], 1),
                1)

RECURSIVE BestLoop(_, _, _, _, _, _)
\* the loop over hand; min is [card, score, pile]
BestLoop(up_piles, down_piles, hand, cards_seen, min, i) ==
  IF i > Len(hand) THEN min
  ELSE
    LET cur == CardCost(hand[i], up_piles, down_piles, cards_seen)
        m2 == IF cur.score < min.score
                THEN [card |-> hand[i], score |-> cur.score, pile |-> cur.pile]
              ELSE min
    IN  BestLoop(up_piles, down_piles, hand, cards_seen, m2, i + 1)

\* variant of determine_best_single_card: once claims are recorded, the
\* ascending piles are left to the claimants
determine_best_single_card_Claimed(up_piles, down_piles, hand, cards_seen, claimed_piles) ==
  BestLoop(IF DOMAIN claimed_piles # {} THEN << >> ELSE up_piles, down_piles, hand,
           cards_seen, [card |-> NoCard, score |-> NO_SCORE * 10, pile |-> 101], 1)

determine_best_single_card(up_piles, down_piles, hand, cards_seen, claimed_piles) ==
  BestLoop(up_piles, down_piles, hand, cards_seen,
           [card |-> NoCard, score |-> NO_SCORE * 10, pile |-> 101], 1)

(***************************************************************************)
(* Game helpers.                                                           *)
(***************************************************************************)
\* the deck of the model: the first NumCards cards of 2, 12, 3, 13, 4, 14, ...
CardOf(i) == 2 + TRICK * ((i - 1) % 2) + ((i - 1) \div 2)
DeckCards == {CardOf(i) : i \in 1..NumCards}

\* the orders random.shuffle can leave the deck in
DeckShuffles == Shuffles(DeckCards)

RECURSIVE Base3Loop(_, _, _, _)
Base3Loop(arr, n, i, p) ==
  IF i >= p THEN arr
  ELSE
    LET a == [arr EXCEPT ![p - i] = n % 3]
        m == n \div 3
    IN  IF m = 0 THEN a ELSE Base3Loop(a, m, i + 1, p)

\* Game._base_3_conv: the base-3 digits of n, most significant first
base_3_conv(n, p) == Base3Loop([k \in 1..p |-> 0], n, 0, p)

\* Game.initialize_players: player i takes hand_size cards off the end of the deck
DealtHands(deck, num_players, hand_size) ==
  [i \in 1..num_players |->
     [j \in 1..hand_size |-> deck[Len(deck) - ((i - 1) * hand_size + (j - 1))]]]

DealtDeck(deck, num_players, hand_size) ==
  SubSeq(deck, 1, Len(deck) - num_players * hand_size)

RECURSIVE SumHands(_, _)
SumHands(hands, i) ==
  IF i > Len(hands) THEN 0 ELSE Len(hands[i]) + SumHands(hands, i + 1)

\* Game.check_if_game_done
check_if_game_done(g) == SumHands(g.hands, 1) = 0

\* variants of the legality tests: the shortcut is forgotten on ascending piles;
\* any card below top + 10 is taken on descending piles
LegalUp_NoTrick(card, pile) == card > pile
LegalDown_Loose(card, pile) == card < pile + TRICK

\* the legality tests of step
LegalUp(card, pile) == card = pile - TRICK \/ card > pile
LegalDown(card, pile) == card = pile + TRICK \/ card < pile

\* variant of ScoreUp: the gap is weighed against 98^2, not 2*98^2
ScoreUp_Steep(card, pile) ==
  IF card = pile - TRICK THEN 1 * ScoreDen
  ELSE ScoreDen - 2 * ((pile - card) * (pile - card))

\* the scores of a play in step, times ScoreDen
ScoreUp(card, pile) ==
  IF card = pile - TRICK THEN 1 * ScoreDen
  ELSE ScoreDen - (pile - card) * (pile - card)

\* variant of ScoreDown: the T+10 play is scored by its gap like any other
ScoreDown_NoShortcut(card, pile) == ScoreDen - (card - pile) * (card - pile)

ScoreDown(card, pile) ==
  IF card = pile + TRICK THEN 1 * ScoreDen
  ELSE ScoreDen - (card - pile) * (card - pile)

\* claimed_piles is a dict: a function whose domain is its keys
DictGet(d, k, default) == IF k \in DOMAIN d THEN d[k] ELSE default
DictSet(d, k, v) == [x \in (DOMAIN d) \cup {k} |-> IF x = k THEN v ELSE d[x]]

\* the row of the claim grid the key p of claimed_piles is shown in: the
\* position of the pile whose top equals p; -1 when there is none
ClaimRow(g, p) ==
  IF Contains(g.piles_up, p) THEN IndexOf(g.piles_up, p, 1) - 1
  ELSE IF Contains(g.piles_down, p) THEN Len(g.piles_up) + IndexOf(g.piles_down, p, 1) - 1
  ELSE 0 - 1

\* the claim grid of the observation: a row per pile position, a column per
\* player; 2 where the key is a card of the hand shown, 1 elsewhere
ClaimedObs(g, hand) ==
  [row \in 0..(g.pile_config[1] + g.pile_config[2] - 1) |->
     [player_id \in 0..(g.num_players - 1) |->
        IF \E p \in DOMAIN g.claimed_piles :
             ClaimRow(g, p) = row /\ Contains(g.claimed_piles[p], player_id)
          THEN LET p == CHOOSE q \in DOMAIN g.claimed_piles :
                          ClaimRow(g, q) = row /\ Contains(g.claimed_piles[q], player_id)
               IN  IF Contains(hand, p) THEN 2 ELSE 1
        ELSE 0]]

\* the observation for the hand shown
Observation(g, hand) ==
  [player_hand |-> [i \in 0..97 |->
                      IF \E j \in 1..Len(hand) : hand[j] - 2 = i THEN 1 ELSE 0],
   piles_up |-> g.piles_up,
   piles_down |-> g.piles_down,
   claimed_piles |-> ClaimedObs(g, hand),
   deck_size |-> Len(g.deck),
   cards_to_play |-> g.num_must_play,
   phase |-> g.phase]

\* variant of get_observation: in the claim phase the hand shown is the
\* claiming player's
get_observation_Claimer(g) ==
  Observation(g, IF g.phase = 1 THEN g.hands[g.claim_phase_turn + 1]
                 ELSE g.hands[g.TURN + 1])

\* Game._get_observation (hands hold cards of 2..99): current_player is the
\* player at TURN
get_observation(g) == Observation(g, g.hands[g.TURN + 1])

\* what step returns: the observation of the state at the return, the score
\* and the flags
Return(g, score, done, trunc) ==
  [g |-> g, obs |-> get_observation(g), score |-> score, done |-> done,
   trunc |-> trunc, raised |-> FALSE]

\* an exception leaves step: nothing is returned
Raise(g) ==
  [g |-> g, score |-> 0, done |-> FALSE, trunc |-> FALSE, raised |-> TRUE]

(***************************************************************************)
(* Game.step.  g is the Game object: a record of its fields; hands[i+1] is  *)
(* players[i].hand.                                                        *)
(***************************************************************************)
\* variant of DrawLoop: the card drawn is read but not popped off the deck
DrawLoop_Peek(deck, hand, hand_size) ==
  IF Len(deck) > 0 /\ Len(hand) < hand_size
    THEN [deck |-> deck, hand |-> Append(hand, deck[Len(deck)])]
  ELSE [deck |-> deck, hand |-> hand]

RECURSIVE DrawLoop_LeavesOne(_, _, _)
\* variant of DrawLoop: the last card of the deck is never drawn
DrawLoop_LeavesOne(deck, hand, hand_size) ==
  IF Len(deck) > 1 /\ Len(hand) < hand_size
    THEN DrawLoop_LeavesOne(SubSeq(deck, 1, Len(deck) - 1), Append(hand, deck[Len(deck)]),
                            hand_size)
  ELSE [deck |-> deck, hand |-> hand]

RECURSIVE DrawLoop(_, _, _)
\* while len(deck) > 0 and len(hand) < hand_size: hand.append(deck.pop())
DrawLoop(deck, hand, hand_size) ==
  IF Len(deck) > 0 /\ Len(hand) < hand_size
    THEN DrawLoop(SubSeq(deck, 1, Len(deck) - 1), Append(hand, deck[Len(deck)]), hand_size)
  ELSE [deck |-> deck, hand |-> hand]

\* variant of TurnEnd: the per-turn counter is not reset
TurnEnd_NoCounterReset(g, player) ==
  LET d == DrawLoop(g.deck, g.hands[player + 1], g.hand_size)
  IN  [g EXCEPT !.TURN = (g.TURN + 1) % g.num_players,
                !.deck = d.deck,
                !.hands[player + 1] = d.hand,
                !.num_must_play = IF Len(d.deck) = 0 THEN 1 ELSE @]

\* the last card of the turn was played: the counter resets, the turn passes
\* on, and current_player (the player who played) draws
TurnEnd(g, player) ==
  LET d == DrawLoop(g.deck, g.hands[player + 1], g.hand_size)
  IN  [g EXCEPT !.current_player_num_played = 0,
                !.TURN = (g.TURN + 1) % g.num_players,
                !.deck = d.deck,
                !.hands[player + 1] = d.hand,
                !.num_must_play = IF Len(d.deck) = 0 THEN 1 ELSE @]

\* variant of AfterPlay: the claims of the last round stay on record
AfterPlay_KeepClaims(g, player, score) ==
  IF check_if_game_done(g) THEN Return(g, WIN * ScoreDen, TRUE, FALSE)
  ELSE
    LET g1 == IF g.current_player_num_played = g.num_must_play
                THEN TurnEnd(g, player)
              ELSE g
        g2 == [g1 EXCEPT !.phase = 1, !.claim_phase_turn = 0]
    IN  Return(g2, score, FALSE, FALSE)

\* a card was played: the win check, the turn bookkeeping, the claim phase
AfterPlay(g, player, score) ==
  IF check_if_game_done(g) THEN Return(g, WIN * ScoreDen, TRUE, FALSE)
  ELSE
    LET g1 == IF g.current_player_num_played = g.num_must_play
                THEN TurnEnd(g, player)
              ELSE g
        g2 == [g1 EXCEPT !.phase = 1, !.claim_phase_turn = 0, !.claimed_piles = << >>]
    IN  Return(g2, score, FALSE, FALSE)

\* a card moves from the player's hand onto a pile: remove(pile), append(card)
PlayOnPile(piles, pile, card) == Append(ListRemove(piles, pile), card)

\* the branch action_type == 0
StepPlay(g0, player, card_index, pile_list) ==
  LET g == [g0 EXCEPT !.current_player_num_played = @ + 1]
      hand == g.hands[player + 1]
      chosen == {p \in 1..Len(pile_list) : pile_list[p] # 0}
      count_piles == Cardinality(chosen)
      \* the last p with pile_list[p] != 0, as a Python index
      pile_num == (CHOOSE p \in chosen : \A q \in chosen : q <= p) - 1
      invalid == Return(g, INVALID * ScoreDen, TRUE, TRUE)
  IN
  IF count_piles # 1 THEN invalid
  ELSE IF card_index >= Len(hand) THEN invalid
  ELSE IF card_index < 0 - Len(hand) THEN Raise(g)
  ELSE
    LET card == hand[IF card_index >= 0 THEN card_index + 1
                     ELSE Len(hand) + card_index + 1]
    IN
    IF pile_num < Len(g.piles_up) THEN
      LET pile == g.piles_up[pile_num + 1]
      IN  IF LegalUp(card, pile)
            THEN AfterPlay([g EXCEPT !.piles_up = PlayOnPile(@, pile, card),
                                     !.hands[player + 1] = ListRemove(@, card)],
                           player, ScoreUp(card, pile))
          ELSE invalid
    ELSE IF pile_num - Len(g.piles_up) < Len(g.piles_down) THEN
      LET pile == g.piles_down[pile_num - Len(g.piles_up) + 1]
      IN  IF LegalDown(card, pile)
            THEN AfterPlay([g EXCEPT !.piles_down = PlayOnPile(@, pile, card),
                                     !.hands[player + 1] = ListRemove(@, card)],
                           player, ScoreDown(card, pile))
          ELSE invalid
    ELSE invalid

RECURSIVE ClaimLoop(_, _, _, _)
\* the loop over pile_list of the branch action_type == 1; i is the Python index.
\* [claimed_piles, ok]: ok is FALSE when the loop returned the invalid outcome
ClaimLoop(claimed_piles, player_id, pile_list, i) ==
  IF i >= Len(pile_list) THEN [claimed_piles |-> claimed_piles, ok |-> TRUE]
  ELSE
    LET pile_claim_strength == pile_list[i + 1]
        pile == i
        claims == DictGet(claimed_piles, pile, << >>)
    IN
    IF pile_claim_strength \notin {0, 1, 2}
      THEN [claimed_piles |-> claimed_piles, ok |-> FALSE]
    ELSE IF pile_claim_strength = 0
      THEN ClaimLoop(claimed_piles, player_id, pile_list, i + 1)
    ELSE IF ~Contains(claims, player_id)
      THEN ClaimLoop(DictSet(claimed_piles, pile, Append(claims, player_id)),
                     player_id, pile_list, i + 1)
    ELSE [claimed_piles |-> claimed_piles, ok |-> FALSE]

\* variant of StepClaim: the round ends with the first player's claim
StepClaim_FirstEnds(g, player, pile_list) ==
  LET c == ClaimLoop(g.claimed_piles, player, pile_list, 0)
      g1 == [g EXCEPT !.claimed_piles = c.claimed_piles]
  IN
  IF ~c.ok THEN Return(g1, INVALID * ScoreDen, TRUE, TRUE)
  ELSE
    LET g2 == [g1 EXCEPT !.claim_phase_turn = @ + 1]
        g3 == IF g2.phase = 1 /\ player = 0
                THEN [g2 EXCEPT !.phase = 0, !.claim_phase_turn = 0]
              ELSE g2
    IN  Return(g3, 0, FALSE, FALSE)

\* the branch action_type == 1 (reached in the claim phase only)
StepClaim(g, player, pile_list) ==
  LET c == ClaimLoop(g.claimed_piles, player, pile_list, 0)
      g1 == [g EXCEPT !.claimed_piles = c.claimed_piles]
  IN
  IF ~c.ok THEN Return(g1, INVALID * ScoreDen, TRUE, TRUE)
  ELSE
    LET g2 == [g1 EXCEPT !.claim_phase_turn = @ + 1]
        g3 == IF g2.phase = 1 /\ player = g2.num_players - 1
                THEN [g2 EXCEPT !.phase = 0, !.claim_phase_turn = 0]
              ELSE g2
    IN  Return(g3, 0, FALSE, FALSE)

\* variant of step: an action of the wrong phase is counted as a play before
\* it is refused
step_CountsFirst(g, action) ==
  LET action_type == action[1]
      card_index == action[2]
      pile_index == action[3]
      counted == [g EXCEPT !.current_player_num_played = @ + 1]
  IN
  IF g.phase = 0 /\ action_type = 1 THEN Return(counted, INVALID * ScoreDen, TRUE, TRUE)
  ELSE IF g.phase = 1 /\ action_type = 0 THEN Return(counted, INVALID * ScoreDen, TRUE, TRUE)
  ELSE
    LET g0 == IF g.phase = 0 THEN [g EXCEPT !.claim_phase_turn = 0] ELSE g
        player == IF g.phase = 0 THEN g.TURN ELSE g.claim_phase_turn
        best == determine_best_single_card(g0.piles_up, g0.piles_down,
                                           g0.hands[player + 1], << >>, g0.claimed_piles)
        pile_len == g0.pile_config[1] + g0.pile_config[2]
        pile_list == base_3_conv(pile_index, pile_len)
    IN
    IF action_type = 0 /\ best.card = NoCard
      THEN Return(g0, CANT_PLAY * ScoreDen, TRUE, FALSE)
    ELSE IF action_type = 0 THEN StepPlay(g0, player, card_index, pile_list)
    ELSE StepClaim(g0, player, pile_list)

\* Game.step(action), action = [action_type, card_index, pile_index]
step(g, action) ==
  LET action_type == action[1]
      card_index == action[2]
      pile_index == action[3]
  IN
  IF g.phase = 0 /\ action_type = 1 THEN Return(g, INVALID * ScoreDen, TRUE, TRUE)
  ELSE IF g.phase = 1 /\ action_type = 0 THEN Return(g, INVALID * ScoreDen, TRUE, TRUE)
  ELSE
    LET g0 == IF g.phase = 0 THEN [g EXCEPT !.claim_phase_turn = 0] ELSE g
        player == IF g.phase = 0 THEN g.TURN ELSE g.claim_phase_turn
        best == determine_best_single_card(g0.piles_up, g0.piles_down,
                                           g0.hands[player + 1], << >>, g0.claimed_piles)
        pile_len == g0.pile_config[1] + g0.pile_config[2]
        pile_list == base_3_conv(pile_index, pile_len)
    IN
    IF action_type = 0 /\ best.card = NoCard
      THEN Return(g0, CANT_PLAY * ScoreDen, TRUE, FALSE)
    ELSE IF action_type = 0 THEN StepPlay(g0, player, card_index, pile_list)
    ELSE StepClaim(g0, player, pile_list)

(***************************************************************************)
(* Game.__init__ and Game.reset.                                           *)
(***************************************************************************)
\* the fields reset assigns, for the shuffled deck it drew
reset(g, shuffled) ==
  [g EXCEPT !.claim_phase_turn = 0,
            !.num_must_play = g.num_must_play_init,
            !.current_player_num_played = 0,
            !.TURN = 0,
            !.claimed_piles = << >>,
            !.deck = DealtDeck(shuffled, g.num_players, g.hand_size),
            !.piles_up = [i \in 1..g.pile_config[1] |-> PILE_START_UP],
            !.piles_down = [i \in 1..g.pile_config[2] |-> PILE_START_DOWN],
            !.hands = DealtHands(shuffled, g.num_players, g.hand_size),
            !.seen_cards = [i \in 1..g.num_players |-> << >>]]

\* Game(num_players, hand_size, num_must_play, pile_config): the fields
\* __init__ assigns, then reset()
NewGame(num_players, hand_size, num_must_play, pile_config, shuffled) ==
  reset([num_players |-> num_players,
         hand_size |-> hand_size,
         num_must_play |-> num_must_play,
         num_must_play_init |-> num_must_play,
         pile_config |-> pile_config,
         current_player_num_played |-> 0,
         phase |-> 0,
         claim_phase_turn |-> 0,
         TURN |-> 0,
         claimed_piles |-> << >>,
         deck |-> << >>,
         piles_up |-> << >>,
         piles_down |-> << >>,
         hands |-> << >>,
         seen_cards |-> << >>],
        shuffled)

(***************************************************************************)
(* Game.set_game_state(config).  config is a dict: a function whose domain *)
(* is its keys; config["players"] is the sequence of the players' hands    *)
(* (config['players'][p]['hand']).                                         *)
(***************************************************************************)
DEFAULT_HAND_SIZE == 6
DEFAULT_NUM_TO_PLAY == 2

RECURSIVE Flatten(_, _)
\* sum([p.hand for p in players], [])
Flatten(hands, i) ==
  IF i > Len(hands) THEN << >> ELSE hands[i] \o Flatten(hands, i + 1)

\* range(2,100), in order
AllCards == [i \in 1..NumCards |-> CardOf(i)]

RECURSIVE NotIn(_, _, _)
\* [c for c in cards if c not in held], cards being range(2,100) in order
NotIn(cards, held, i) ==
  IF i > Len(cards) THEN << >>
  ELSE IF Contains(held, cards[i]) THEN NotIn(cards, held, i + 1)
  ELSE <<cards[i]>> \o NotIn(cards, held, i + 1)

\* the orders random.shuffle can leave the list s in
ShufflesOf(s) ==
  {[i \in 1..Len(s) |-> s[q[i]]] : q \in Shuffles(1..Len(s))}

\* variant of LoadedHands: a hand config names is always taken
LoadedHands_Always(config, dealt, hand_size) ==
  [p \in 1..Len(dealt) |-> config["players"][p]]

\* the loop over the players: the hand config names replaces the dealt hand
\* when it has hand_size cards
LoadedHands(config, dealt, hand_size) ==
  [p \in 1..Len(dealt) |->
     IF Len(config["players"][p]) = hand_size THEN config["players"][p]
     ELSE dealt[p]]

\* the fields set_game_state assigns before it deals
LoadedFields(g, config) ==
  LET piles_up == config["piles_up"]
      piles_down == config["piles_down"]
  IN  [g EXCEPT !.num_players = Len(config["players"]),
                !.hand_size = DictGet(config, "hand_size", DEFAULT_HAND_SIZE),
                !.num_must_play = DictGet(config, "num_to_play", DEFAULT_NUM_TO_PLAY),
                !.num_must_play_init = DictGet(config, "num_to_play", DEFAULT_NUM_TO_PLAY),
                !.piles_up = piles_up,
                !.piles_down = piles_down,
                !.phase = DictGet(config, "phase", 0),
                !.pile_config = <<Len(piles_up), Len(piles_down)>>,
                !.TURN = DictGet(config, "active_player", 0),
                !.claim_phase_turn = 0]

\* the decks the deal can be made from: config's deck, or the cards in no
\* hand of config, shuffled
FirstDecks(config) ==
  IF "deck" \in DOMAIN config THEN {config["deck"]}
  ELSE ShufflesOf(NotIn(AllCards, Flatten(config["players"], 1), 1))

\* the deal runs out of cards: deck.pop() raises IndexError
DealFails(config, first_deck) ==
  Len(first_deck) < Len(config["players"]) * DictGet(config, "hand_size", DEFAULT_HAND_SIZE)

\* the hands after the deal from first_deck and the loop over the players
LoadedPlayers(config, first_deck) ==
  LET hand_size == DictGet(config, "hand_size", DEFAULT_HAND_SIZE)
  IN  LoadedHands(config, DealtHands(first_deck, Len(config["players"]), hand_size),
                  hand_size)

\* the decks set_game_state can leave: config's deck as it was given, or the
\* cards in no player's hand, shuffled
LastDecks(config, first_deck) ==
  IF DealFails(config, first_deck) THEN {<< >>}
  ELSE IF "deck" \in DOMAIN config THEN {first_deck}
  ELSE ShufflesOf(NotIn(AllCards, Flatten(LoadedPlayers(config, first_deck), 1), 1))

\* set_game_state(config), for the outcomes first_deck and last_deck of its
\* shuffles; when the deal fails the players stay the old ones
set_game_state(g, config, first_deck, last_deck) ==
  LET g1 == LoadedFields(g, config)
  IN  IF DealFails(config, first_deck)
        THEN [g |-> [g1 EXCEPT !.deck = last_deck], raised |-> TRUE]
      ELSE [g |-> [g1 EXCEPT !.hands = LoadedPlayers(config, first_deck),
                             !.seen_cards = [i \in 1..Len(config["players"]) |-> << >>],
                             !.deck = last_deck],
            raised |-> FALSE]

(***************************************************************************)
(* Player.claim_pile and Game.play_game.  In play_game claimed_piles is a  *)
(* dict from a pile's top value to the strength claimed on it.             *)
(***************************************************************************)
CLAIM_HARD == 8
CLAIM_SOFT == 2

\* dict.pop(k) of a key that is present, d.update(e)
DictPop(d, k) == [x \in (DOMAIN d) \ {k} |-> d[x]]
DictUpdate(d, e) == [x \in (DOMAIN d) \cup (DOMAIN e) |-> IF x \in DOMAIN e THEN e[x] ELSE d[x]]

RECURSIVE ClaimHandLoop(_, _, _, _, _, _)
\* for c in self.hand, for the pile with top p and existing claim pc; dir is
\* 1 in the loop over piles_up and -1 in the loop over piles_down
ClaimHandLoop(hand, p, dir, pc, claims, j) ==
  IF j > Len(hand) THEN claims
  ELSE
    LET c == hand[j]
        c1 == IF c = p - dir * 10 /\ CLAIM_HARD > pc
                THEN DictSet(claims, p, CLAIM_HARD)
              ELSE claims
        c2 == IF (c - p) * dir \in {1, 2} /\ CLAIM_SOFT > pc
                THEN DictSet(c1, p, CLAIM_SOFT)
              ELSE c1
    IN  ClaimHandLoop(hand, p, dir, pc, c2, j + 1)

RECURSIVE ClaimPileLoop(_, _, _, _, _, _)
\* for p in piles: pc = claimed_piles.get(p, 0), then the loop over the hand
ClaimPileLoop(hand, piles, dir, claimed_piles, claims, k) ==
  IF k > Len(piles) THEN claims
  ELSE ClaimPileLoop(hand, piles, dir, claimed_piles,
                     ClaimHandLoop(hand, piles[k], dir,
                                   DictGet(claimed_piles, piles[k], 0), claims, 1),
                     k + 1)

\* variant of claim_pile: the claims already recorded are not looked at
claim_pile_Fresh(hand, piles_up, piles_down, claimed_piles) ==
  ClaimPileLoop(hand, piles_down, 0 - 1, << >>,
                ClaimPileLoop(hand, piles_up, 1, << >>, << >>, 1), 1)

\* Player.claim_pile: the dict of the claims the player emits
claim_pile(hand, piles_up, piles_down, claimed_piles) ==
  ClaimPileLoop(hand, piles_down, 0 - 1, claimed_piles,
                ClaimPileLoop(hand, piles_up, 1, claimed_piles, << >>, 1), 1)

RECURSIVE ClaimRound(_, _, _, _)
\* for p in self.players (players k..last): claimed_piles[c] = claim_piles[c]
ClaimRound(g, claimed_piles, k, last) ==
  IF k > last THEN claimed_piles
  ELSE ClaimRound(g,
                  DictUpdate(claimed_piles,
                             claim_pile(g.hands[k], g.piles_up, g.piles_down, claimed_piles)),
                  k + 1, last)

\* the locals of play_game and the position in it: n is the range of the for
\* loop (num_must_play when the loop was entered), i its index
NoFrame == [pc |-> "idle", game_not_done |-> TRUE, current_player |-> 0, n |-> 0, i |-> 0]

\* variant of PassBreak: the loop is left with game_not_done still set
PassBreak_FlagKept(f) == [f EXCEPT !.pc = "turn_end"]

\* game_not_done = False; break
PassBreak(f) == [f EXCEPT !.game_not_done = FALSE, !.pc = "turn_end"]

\* the play is applied to the first pile whose top equals the value the
\* heuristic returned, the ascending piles searched first
ApplyPlay(g, player, card, pile) ==
  IF Contains(g.piles_up, pile)
    THEN [g EXCEPT !.piles_up = PlayOnPile(@, pile, card),
                   !.hands[player + 1] = ListRemove(@, card)]
  ELSE [g EXCEPT !.piles_down = PlayOnPile(@, pile, card),
                 !.hands[player + 1] = ListRemove(@, card)]

\* player_turn: the card, cost and pile the heuristic selects for the player,
\* given the player's own seen_cards
player_turn(g, player) ==
  determine_best_single_card(g.piles_up, g.piles_down, g.hands[player + 1],
                             g.seen_cards[player + 1], g.claimed_piles)

\* the play is handled and the claim on the pile played on is dropped
PassPlay(g, player, card, pile) ==
  [ApplyPlay(g, player, card, pile) EXCEPT
     !.claimed_piles = IF pile \in DOMAIN @ THEN DictPop(@, pile) ELSE @]

\* the player draws after the last play of the turn (num_must_play == i+1);
\* an empty deck lowers num_must_play to 1
PassDraw(g, player, i) ==
  LET d == IF g.num_must_play = i + 1
             THEN DrawLoop(g.deck, g.hands[player + 1], g.hand_size)
           ELSE [deck |-> g.deck, hand |-> g.hands[player + 1]]
  IN  [g EXCEPT !.deck = d.deck,
                !.hands[player + 1] = d.hand,
                !.num_must_play = IF Len(d.deck) = 0 THEN 1 ELSE @]

(***************************************************************************)
(* The state machine: a Game object driven by step and reset calls.        *)
(***************************************************************************)
VARIABLES
  game,       \* the Game object
  op,         \* the last call: "reset", "step", "set_game_state" or "play_game"
  ret,        \* what the last call returned: [score, done, trunc, raised]
  frame       \* the locals of a running play_game; NoFrame outside of it

vars == <<game, op, ret, frame>>

NoReturn == [score |-> 0, done |-> FALSE, trunc |-> FALSE, raised |-> FALSE]

\* the configurations whose deal the deck can serve
Configs ==
  {c \in [num_players : 1..MaxPlayers, hand_size : 1..MaxHand,
          num_must_play : 1..MaxMustPlay, pile_config : (1..MaxUp) \X (1..MaxDown)] :
     c.num_players * c.hand_size <= NumCards}

\* the pile codes submitted with a play, for p piles: no pile, each single
\* pile (digit 1), the last pile with digit 2, the first and last pile together
PlayCodes(p) == {0, 2, Pow3(p - 1) + 1} \cup {Pow3(k) : k \in 0..(p - 1)}

\* the pile codes submitted with a claim: no claim, or a soft claim (digit 1)
\* on the first pile together with a hard claim (digit 2) on the last
ClaimCodes(p) == {0, Pow3(p - 1) + 2}

\* the actions submitted to step: [action_type, card_index, pile_index]; a play
\* submitted in the claim phase is refused whatever its card, so one card
\* index stands for all there
Actions(g) ==
  LET p == g.pile_config[1] + g.pile_config[2]
      card_indices == IF g.phase = 0 THEN (0 - NegIdx)..g.hand_size ELSE {0}
  IN  ({0} \X card_indices \X PlayCodes(p)) \cup ({1} \X {0} \X ClaimCodes(p))

\* an episode is over once step returned done (or raised); reset starts the next
EpisodeOver == ret.done \/ ret.raised

Init ==
  /\ \E c \in Configs, shuffled \in DeckShuffles :
       game = NewGame(c.num_players, c.hand_size, c.num_must_play, c.pile_config, shuffled)
  /\ op = "reset"
  /\ ret = NoReturn
  /\ frame = NoFrame

Step ==
  /\ ~EpisodeOver
  /\ \E a \in Actions(game) :
       LET r == step(game, a)
       IN  /\ game' = r.g
           /\ ret' = [score |-> r.score, done |-> r.done, trunc |-> r.trunc,
                      raised |-> r.raised]
  /\ op' = "step"
  /\ UNCHANGED frame

Reset ==
  /\ EpisodeOver
  /\ \E shuffled \in DeckShuffles : game' = reset(game, shuffled)
  /\ op' = "reset"
  /\ ret' = NoReturn
  /\ UNCHANGED frame

Next == Step \/ Reset

Spec == Init /\ [][Next]_vars

(***************************************************************************)
(* The same object, driven also by set_game_state: a configuration is      *)
(* loaded into a game fresh from the constructor or from reset.            *)
(***************************************************************************)
\* the hands a config may name: cards of the deck in ascending order, up to
\* MaxHand of them
HandChoices ==
  {h \in UNION {[1..n -> DeckCards] : n \in 0..MaxHand} :
     \A i, j \in 1..Len(h) : i < j => h[i] < h[j]}

\* the players of a config: up to MaxPlayers hands with no card in common
PlayerChoices ==
  {ps \in UNION {[1..n -> HandChoices] : n \in 1..MaxPlayers} :
     \A p, q \in 1..Len(ps) : p < q =>
       \A i \in 1..Len(ps[p]), j \in 1..Len(ps[q]) : ps[p][i] # ps[q][j]}

\* configs over the model's deck, all with hand_size (the default of 6 is more
\* than the model's deck can deal): the required keys alone, with a deck, and
\* with num_to_play and active_player
SmallConfigs ==
  LET base(ps, hs) == [players |-> ps, hand_size |-> hs,
                       piles_up |-> <<PILE_START_UP>>,
                       piles_down |-> <<PILE_START_DOWN>>]
      sized == {base(ps, hs) : ps \in PlayerChoices, hs \in 1..MaxHand}
      ok == {c \in sized : Len(c.players) * c.hand_size <= NumCards}
  IN  ok
      \cup {c @@ [deck |-> AllCards] : c \in ok}
      \cup {c @@ [num_to_play |-> 1, active_player |-> Len(c.players) - 1] : c \in ok}

\* configs over the whole range of cards: one player holding card c and a
\* second card, an ascending and a descending pile, a deck of two other cards
RangeConfigs ==
  {[players |-> <<<<c, IF c = 99 THEN 98 ELSE 99>>>>, hand_size |-> 2, num_to_play |-> 2,
    piles_up |-> <<t[1]>>, piles_down |-> <<t[2]>>,
    deck |-> IF c \in {2, 3} THEN <<12, 13>> ELSE <<2, 3>>] :
     c \in 2..99, t \in {<<PILE_START_UP, PILE_START_DOWN>>, <<50, 50>>}}

LoadConfigs == SmallConfigs \cup RangeConfigs

LoadInit ==
  /\ \E shuffled \in DeckShuffles : game = NewGame(1, 1, 1, <<1, 1>>, shuffled)
  /\ op = "reset"
  /\ ret = NoReturn
  /\ frame = NoFrame

Load ==
  /\ op = "reset"
  /\ \E config \in LoadConfigs :
       \E first_deck \in FirstDecks(config) :
         \E last_deck \in LastDecks(config, first_deck) :
           LET r == set_game_state(game, config, first_deck, last_deck)
           IN  /\ game' = r.g
               /\ ret' = [NoReturn EXCEPT !.raised = r.raised]
  /\ op' = "set_game_state"
  /\ UNCHANGED frame

LoadNext == Load \/ Step \/ Reset

LoadSpec == LoadInit /\ [][LoadNext]_vars

(***************************************************************************)
(* play_game, run on a game fresh from the constructor: one action per     *)
(* pass of its loops.  The interpreter runs the call to its end, so every  *)
(* enabled step is eventually taken.                                       *)
(***************************************************************************)
PlayInit ==
  /\ \E c \in Configs, shuffled \in DeckShuffles :
       game = NewGame(c.num_players, c.hand_size, c.num_must_play, c.pile_config, shuffled)
  /\ op = "play_game"
  /\ ret = NoReturn
  /\ frame = [NoFrame EXCEPT !.pc = "while"]

\* while game_not_done: current_player = self.players[self.TURN];
\* for i in range(self.num_must_play)
PgWhile ==
  /\ frame.pc = "while"
  /\ frame' = IF frame.game_not_done
                THEN [frame EXCEPT !.current_player = game.TURN,
                                   !.n = game.num_must_play,
                                   !.i = 0,
                                   !.pc = IF game.num_must_play > 0 THEN "for"
                                          ELSE "turn_end"]
              ELSE [frame EXCEPT !.pc = "returned"]
  /\ UNCHANGED <<game, op, ret>>

\* the body of the for loop: the win check, the selection (a loss when there
\* is none), the play, the draw, the claim round
PgPass ==
  /\ frame.pc = "for"
  /\ \E best \in {player_turn(game, frame.current_player)} :
       IF check_if_game_done(game) \/ best.card = NoCard
         THEN /\ game' = game
              /\ frame' = PassBreak(frame)
       ELSE IF ~Contains(game.piles_up, best.pile) /\ ~Contains(game.piles_down, best.pile)
         THEN /\ game' = game
              /\ frame' = [frame EXCEPT !.pc = "ValueError"]
       ELSE
         \E g2 \in {PassPlay(game, frame.current_player, best.card, best.pile)} :
           \E g3 \in {PassDraw(g2, frame.current_player, frame.i)} :
             /\ game' = [g3 EXCEPT !.claimed_piles =
                                     ClaimRound(g3, << >>, 1, g3.num_players)]
             /\ frame' = [frame EXCEPT !.i = @ + 1,
                                       !.pc = IF frame.i + 1 < frame.n THEN "for"
                                              ELSE "turn_end"]
  /\ UNCHANGED <<op, ret>>

\* self.TURN = ((self.TURN + 1) % self.num_players), after the for loop
PgTurnEnd ==
  /\ frame.pc = "turn_end"
  /\ game' = [game EXCEPT !.TURN = (game.TURN + 1) % game.num_players]
  /\ frame' = [frame EXCEPT !.pc = "while"]
  /\ UNCHANGED <<op, ret>>

PlayNext == PgWhile \/ PgPass \/ PgTurnEnd

PlaySpec == PlayInit /\ [][PlayNext]_vars /\ WF_vars(PlayNext)

(***************************************************************************)
(* Vocabulary of the properties.                                           *)
(***************************************************************************)
\* step may be called: the play phase of a running episode
PlayState == game.phase = 0 /\ ~EpisodeOver

ActiveHand(g) == g.hands[g.TURN + 1]
\* the pile tops by position: ascending piles first, then descending
Tops(g) == g.piles_up \o g.piles_down
NumPiles(g) == g.pile_config[1] + g.pile_config[2]

\* card c may go on the pile at position k (a Python index) of g
LegalOn(g, c, k) ==
  LET T == Tops(g)[k + 1]
  IN  IF k < Len(g.piles_up) THEN c = T - 10 \/ c > T
      ELSE c = T + 10 \/ c < T

HasLegalPlay(g) ==
  \E i \in 1..Len(ActiveHand(g)), k \in 0..(NumPiles(g) - 1) :
    LegalOn(g, ActiveHand(g)[i], k)

\* the play actions, and what they name
PlayActions(g) == {a \in Actions(g) : a[1] = 0}
InRange(a, g) == a[2] >= 0 /\ a[2] < Len(ActiveHand(g))
NamedCard(a, g) == ActiveHand(g)[a[2] + 1]
\* the action's pile code selects the single pile at position k
NamesPile(a, g, k) ==
  a[3] = Pow3(NumPiles(g) - 1 - k) \/ a[3] = 2 * Pow3(NumPiles(g) - 1 - k)
Positions(g) == 0..(NumPiles(g) - 1)

\* the outcomes of a step call, r = [score, done, trunc, raised, ...]
IsInvalid(r) == ~r.raised /\ r.score = INVALID * ScoreDen /\ r.trunc
IsLoss(r) == ~r.raised /\ r.score = CANT_PLAY * ScoreDen /\ r.done /\ ~r.trunc
IsWin(r) == ~r.raised /\ r.score = WIN * ScoreDen /\ r.done /\ ~r.trunc
\* a submitted play was accepted: the card was played
IsPlayed(r) == ~r.raised /\ ~r.trunc /\ r.score > 0

AllHandsEmpty(g) == \A i \in 1..Len(g.hands) : Len(g.hands[i]) = 0
SameCards(g, h) ==
  /\ g.hands = h.hands
  /\ g.piles_up = h.piles_up
  /\ g.piles_down = h.piles_down
  /\ g.deck = h.deck

(***************************************************************************)
(* C1.  In the play phase, when the active player has a legal play, a play *)
(* naming an in-range hand card C and the pile at position k with top T is *)
(* accepted exactly when C = T-10 or C > T (ascending pile), C = T+10 or   *)
(* C < T (descending pile): C and T of the chosen pile alone decide.       *)
(***************************************************************************)
C1_LegalityDecides ==
  (PlayState /\ HasLegalPlay(game)) =>
    \A a \in PlayActions(game) : \A k \in Positions(game) :
      (InRange(a, game) /\ NamesPile(a, game, k)) =>
        (IsPlayed(step(game, a)) <=> LegalOn(game, NamedCard(a, game), k))

\* a play through the T-10 / T+10 branch (score exactly 1) was accepted
C1_Witness ==
  /\ op = "step"
  /\ ret.score = 1 * ScoreDen
  /\ ~ret.done

(***************************************************************************)
(* C2.  A legal play of card C on the pile at position k puts C on top of  *)
(* position k, takes C out of the active player's hand and leaves the top  *)
(* of every other position as it was.                                      *)
(***************************************************************************)
C2_PositionKept ==
  PlayState =>
    \A a \in PlayActions(game) : \A k \in Positions(game) :
      LET r == step(game, a)
      IN  (InRange(a, game) /\ NamesPile(a, game, k) /\ IsPlayed(r)) =>
            /\ Tops(r.g)[k + 1] = NamedCard(a, game)
            /\ \A j \in Positions(game) : j # k => Tops(r.g)[j + 1] = Tops(game)[j + 1]
            /\ ~Contains(r.g.hands[game.TURN + 1], NamedCard(a, game))

(***************************************************************************)
(* C3 as stated.  From the beginning of a turn, the play that completes    *)
(* the required plays passes the turn to the next player and zeroes the    *)
(* per-turn counter; an earlier play leaves the active player.             *)
(***************************************************************************)
C3_AfterRequiredPlays ==
  PlayState =>
    \A a \in PlayActions(game) :
      LET r == step(game, a)
      IN  IsPlayed(r) =>
            IF game.current_player_num_played + 1 = game.num_must_play
              THEN /\ r.g.TURN = (game.TURN + 1) % game.num_players
                   /\ r.g.current_player_num_played = 0
            ELSE r.g.TURN = game.TURN

(***************************************************************************)
(* C3 as amended.  The per-turn counter is the number of plays accepted    *)
(* since the turn began and stays below the required plays; an accepted    *)
(* play that is not reported as a win passes the turn on and zeroes the    *)
(* counter when it completes the required plays, and otherwise only        *)
(* counts; an accepted claim changes neither.                              *)
(***************************************************************************)
C3_TurnAdvance ==
  ~EpisodeOver =>
    /\ game.current_player_num_played < game.num_must_play
    /\ \A a \in Actions(game) :
         LET r == step(game, a)
         IN  IF a[1] = 0
               THEN (IsPlayed(r) /\ ~IsWin(r)) =>
                      IF game.current_player_num_played + 1 = game.num_must_play
                        THEN /\ r.g.TURN = (game.TURN + 1) % game.num_players
                             /\ r.g.current_player_num_played = 0
                      ELSE /\ r.g.TURN = game.TURN
                           /\ r.g.current_player_num_played =
                                game.current_player_num_played + 1
             ELSE (~r.done /\ ~r.raised) =>
                    /\ r.g.TURN = game.TURN
                    /\ r.g.current_player_num_played = game.current_player_num_played

\* the second of two required plays was made and the turn went to player 1
C3_Witness ==
  /\ op = "step"
  /\ IsPlayed(ret)
  /\ ~ret.done
  /\ game.num_must_play_init = 2
  /\ game.num_players = 2
  /\ game.TURN = 1
  /\ game.current_player_num_played = 0
  /\ Len(game.hands[1]) + Len(game.deck) + 2 = NumCards - Len(game.hands[2])

(***************************************************************************)
(* C4.  A play submitted in the play phase returns the no-legal-play loss  *)
(* (-5, terminal, not invalid) exactly when no card of the active hand is  *)
(* legal on any pile, whatever card and pile it names, and then no hand,   *)
(* pile or deck changes.                                                   *)
(***************************************************************************)
C4_LossIffNoLegalPlay ==
  PlayState =>
    \A a \in PlayActions(game) :
      LET r == step(game, a)
      IN  /\ IsLoss(r) <=> ~HasLegalPlay(game)
          /\ IsLoss(r) => SameCards(r.g, game)

\* the loss was returned to a player who holds cards, none of them playable
C4_Witness ==
  /\ op = "step"
  /\ IsLoss(ret)
  /\ Len(ActiveHand(game)) > 0
  /\ ~HasLegalPlay(game)

(***************************************************************************)
(* C5.  An accepted play is reported as a win (1000, terminal) exactly     *)
(* when it leaves every hand and the deck empty; no win while the deck     *)
(* holds cards.                                                            *)
(***************************************************************************)
C5_WinIffAllEmpty ==
  PlayState =>
    \A a \in PlayActions(game) :
      LET r == step(game, a)
      IN  IsPlayed(r) =>
            (IsWin(r) <=> (AllHandsEmpty(r.g) /\ Len(r.g.deck) = 0))

(***************************************************************************)
(* C6.  Deck exhaustion rule: whenever the deck is empty, the required     *)
(* plays per turn is 1.                                                    *)
(***************************************************************************)
C6_EmptyDeckOnePlay == Len(game.deck) = 0 => game.num_must_play = 1

(***************************************************************************)
(* C7.  A play whose card index is outside [0, len(hand)) returns the      *)
(* invalid-action outcome (-10, flagged invalid) and plays no card, in     *)
(* every play-phase state.                                                 *)
(***************************************************************************)
C7_OutOfRangeInvalid ==
  PlayState =>
    \A a \in PlayActions(game) :
      LET r == step(game, a)
      IN  ~InRange(a, game) => (IsInvalid(r) /\ SameCards(r.g, game))

C9_InvalidContinues == (op = "step" /\ IsInvalid(ret)) => ~ret.done

(***************************************************************************)
(* C10.  No card occurs twice among the deck, the hands and the pile tops: *)
(* the cards of the deck, of the hands and the non-sentinel pile tops are  *)
(* pairwise different and lie in 2..99.                                     *)
(***************************************************************************)
IsCardTop(t) == t # PILE_START_UP /\ t # PILE_START_DOWN

CardsAbout(g) == g.deck \o Flatten(g.hands, 1) \o SelectSeq(Tops(g), IsCardTop)

C10_CardsUnique ==
  LET cards == CardsAbout(game)
  IN  /\ \A i, j \in 1..Len(cards) : i # j => cards[i] # cards[j]
      /\ \A i \in 1..Len(cards) : cards[i] \in 2..99

\* cards were played onto piles and the deck was drawn empty
C10_Witness ==
  /\ op = "step"
  /\ Len(SelectSeq(Tops(game), IsCardTop)) >= 2
  /\ Len(game.deck) = 0
  /\ Len(game.deck) < NumCards - game.num_players * game.hand_size
  /\ ~AllHandsEmpty(game)

(***************************************************************************)
(* C11 as stated.  Card conservation: the cards of the deck, of the hands  *)
(* and the non-sentinel pile tops are, without duplicates, exactly the     *)
(* whole deck of cards.                                                    *)
(***************************************************************************)
SeqSet(s) == {s[i] : i \in 1..Len(s)}
NoDuplicates(s) == \A i, j \in 1..Len(s) : i # j => s[i] # s[j]

C11_TopsConserve ==
  /\ NoDuplicates(CardsAbout(game))
  /\ SeqSet(CardsAbout(game)) = DeckCards

(***************************************************************************)
(* C11 as amended.  A card under a pile's top is out of sight: right after *)
(* reset the deck and the hands hold the whole deck of cards once each and *)
(* every pile shows its sentinel; an accepted play moves exactly the named *)
(* card from the hands to a pile top, a turn's draw moves cards from the   *)
(* deck to a hand, and no other step changes the cards of deck and hands.  *)
(***************************************************************************)
HeldCards(g) == g.deck \o Flatten(g.hands, 1)

C11_HeldCardsConserve ==
  /\ NoDuplicates(HeldCards(game))
  /\ SeqSet(HeldCards(game)) \subseteq DeckCards
  /\ op = "reset" =>
       /\ SeqSet(HeldCards(game)) = DeckCards
       /\ \A k \in 1..Len(Tops(game)) : ~IsCardTop(Tops(game)[k])
  /\ ~EpisodeOver =>
       \A a \in Actions(game) :
         LET r == step(game, a)
             played == a[1] = 0 /\ IsPlayed(r)
             card == IF a[2] >= 0 THEN NamedCard(a, game)
                     ELSE ActiveHand(game)[Len(ActiveHand(game)) + a[2] + 1]
         IN  ~r.raised =>
               /\ NoDuplicates(HeldCards(r.g))
               /\ IF played
                    THEN /\ SeqSet(HeldCards(r.g)) = SeqSet(HeldCards(game)) \ {card}
                         /\ Len(HeldCards(r.g)) = Len(HeldCards(game)) - 1
                         /\ card \in SeqSet(Tops(r.g))
                  ELSE /\ SeqSet(HeldCards(r.g)) = SeqSet(HeldCards(game))
                       /\ Tops(r.g) = Tops(game)

\* a second card was played on a pile: the first one is covered
C11_Witness ==
  /\ op = "step"
  /\ IsPlayed(ret)
  /\ Len(HeldCards(game)) + Len(SelectSeq(Tops(game), IsCardTop)) < NumCards

(***************************************************************************)
(* C12.  The play that completes the turn's required plays passes the turn *)
(* on, and the cards then drawn go to the new active player, whose hand is *)
(* filled up to hand_size or until the deck is empty; nobody else draws.   *)
(***************************************************************************)
Min(a, b) == IF a < b THEN a ELSE b

C12_NewActiveDraws ==
  PlayState =>
    \A a \in PlayActions(game) :
      LET r == step(game, a)
          new == r.g.TURN + 1
          need == IF new = game.TURN + 1 THEN game.hand_size - Len(ActiveHand(game)) + 1
                  ELSE game.hand_size - Len(game.hands[new])
          drawn == Min(IF need > 0 THEN need ELSE 0, Len(game.deck))
      IN  (IsPlayed(r) /\ ~IsWin(r)
             /\ game.current_player_num_played + 1 = game.num_must_play) =>
            /\ r.g.TURN = (game.TURN + 1) % game.num_players
            /\ Len(r.g.deck) = Len(game.deck) - drawn
            /\ \A i \in 1..Len(game.hands) :
                 Len(r.g.hands[i]) = Len(game.hands[i])
                                       - (IF i = game.TURN + 1 THEN 1 ELSE 0)
                                       + (IF i = new THEN drawn ELSE 0)

(***************************************************************************)
(* C13.  A loss is declared only for an active player who holds cards:     *)
(* step never reports the loss for an active player with an empty hand     *)
(* while another player still holds cards.                                 *)
(***************************************************************************)
C13_LossOnlyWithCards ==
  PlayState =>
    \A a \in PlayActions(game) :
      IsLoss(step(game, a)) => (Len(ActiveHand(game)) > 0 \/ AllHandsEmpty(game))

(***************************************************************************)
(* C14.  The score of an accepted play that is not a win, of card C on a   *)
(* pile with top T: exactly 1 for C = T-10 on an ascending pile and for    *)
(* C = T+10 on a descending pile, and otherwise 1 - gap^2/(2*98^2) with    *)
(* gap = |T - C|, the same for both directions.                            *)
(***************************************************************************)
Abs(x) == IF x < 0 THEN 0 - x ELSE x

Accepted(r) == ~r.raised /\ ~r.done

C15_ShortcutMaximal ==
  /\ op = "reset" =>
       \A C \in 2..99, T \in 1..100 :
         /\ (LegalUp(C, T) /\ C # T - 10) =>
              (0 < ScoreUp(C, T) /\ ScoreUp(C, T) < ScoreUp(T - 10, T))
         /\ (LegalDown(C, T) /\ C # T + 10) =>
              (0 < ScoreDown(C, T) /\ ScoreDown(C, T) < ScoreDown(T + 10, T))
  /\ PlayState =>
       \A a \in PlayActions(game) : \A k \in Positions(game) :
         LET r == step(game, a)
             C == NamedCard(a, game)
             T == Tops(game)[k + 1]
             up == k < Len(game.piles_up)
             shortcut == IF up THEN C = T - 10 ELSE C = T + 10
             best == IF up THEN ScoreUp(T - 10, T) ELSE ScoreDown(T + 10, T)
         IN  (InRange(a, game) /\ NamesPile(a, game, k) /\ Accepted(r)) =>
               /\ 0 < r.score
               /\ r.score <= best
               /\ ~shortcut => r.score < best

\* card 99 was played on the ascending sentinel: the widest gap
C15_Witness ==
  /\ op = "step"
  /\ ~ret.done
  /\ ret.score = ScoreDen - 98 * 98
  /\ Contains(game.piles_up, 99)

(***************************************************************************)
(* C17.  Explicit-state load: after set_game_state(config) every player's  *)
(* hand is the hand config names, the pile tops are config's, the active   *)
(* player is config's active_player (0 if absent), the required plays is   *)
(* num_to_play, and the deck is config's deck in its order when one is     *)
(* given and otherwise holds exactly the cards that are in no hand         *)
(* (whenever set_game_state returns).                                      *)
(***************************************************************************)
C17_LoadAsNamed ==
  op = "reset" =>
    \A config \in LoadConfigs :
      \A first_deck \in FirstDecks(config) :
        \A last_deck \in LastDecks(config, first_deck) :
          LET r == set_game_state(game, config, first_deck, last_deck)
          IN  ~r.raised =>
                /\ r.g.hands = config["players"]
                /\ r.g.piles_up = config["piles_up"]
                /\ r.g.piles_down = config["piles_down"]
                /\ r.g.TURN = DictGet(config, "active_player", 0)
                /\ r.g.num_must_play = DictGet(config, "num_to_play", DEFAULT_NUM_TO_PLAY)
                /\ IF "deck" \in DOMAIN config THEN r.g.deck = config["deck"]
                   ELSE /\ NoDuplicates(r.g.deck)
                        /\ SeqSet(r.g.deck) = DeckCards \ SeqSet(Flatten(r.g.hands, 1))

(***************************************************************************)
(* C16.  The score of an accepted play carries a bonus for every card in   *)
(* the deck when the action is submitted: the same play scores more with   *)
(* more cards in the deck (here: with the deck as it is, against the deck  *)
(* without its bottom card).                                               *)
(***************************************************************************)
C16_DeckBonus ==
  (PlayState /\ Len(game.deck) > 0) =>
    \A a \in PlayActions(game) :
      LET r == step(game, a)
          less == step([game EXCEPT !.deck = Tail(@)], a)
      IN  (Accepted(r) /\ Accepted(less)) => r.score > less.score

(***************************************************************************)
(* C18.  Every observation returned by reset or step describes the state   *)
(* at the return: position c-2 of the hand indicator is set exactly for    *)
(* the cards c of the hand of the player at the active index, piles_up and *)
(* piles_down are the pile tops in order, deck_size is the number of cards *)
(* in the deck and cards_to_play the required plays per turn.              *)
(***************************************************************************)
ObsDescribes(obs, g) ==
  /\ DOMAIN obs.player_hand = 0..97
  /\ \A c \in 2..99 :
       obs.player_hand[c - 2] = IF c \in SeqSet(ActiveHand(g)) THEN 1 ELSE 0
  /\ obs.piles_up = g.piles_up
  /\ obs.piles_down = g.piles_down
  /\ obs.deck_size = Len(g.deck)
  /\ obs.cards_to_play = g.num_must_play

C18_ObservationCurrent ==
  /\ op = "reset" => ObsDescribes(get_observation(game), game)
  /\ ~EpisodeOver =>
       \A a \in Actions(game) :
         LET r == step(game, a)
         IN  ~r.raised => ObsDescribes(r.obs, r.g)

\* a claim round is under way in which the claiming player is not the active
\* player and holds other cards
C18_Witness ==
  /\ op = "step"
  /\ ~EpisodeOver
  /\ game.phase = 1
  /\ game.claim_phase_turn # game.TURN
  /\ SeqSet(game.hands[game.claim_phase_turn + 1]) # SeqSet(ActiveHand(game))

(***************************************************************************)
(* C19.  Claims never affect play: in two states that differ only in the   *)
(* recorded claims the same play action has the same outcome and score and *)
(* leaves the same hands, piles, deck and active player, and the heuristic *)
(* selects the same card and pile.                                         *)
(***************************************************************************)
\* other records of claims: none, player 0 on the first pile, every player
\* on every pile
ClaimVariants(g) ==
  {<< >>,
   [k \in {0} |-> <<0>>],
   [k \in Positions(g) |-> [i \in 1..g.num_players |-> i - 1]]}

C19_ClaimsIrrelevant ==
  PlayState =>
    \A cp \in ClaimVariants(game) :
      LET other == [game EXCEPT !.claimed_piles = cp]
      IN  /\ determine_best_single_card(game.piles_up, game.piles_down,
                                        ActiveHand(game), << >>, game.claimed_piles)
               = determine_best_single_card(game.piles_up, game.piles_down,
                                            ActiveHand(game), << >>, cp)
          /\ \A a \in PlayActions(game) :
               LET r == step(game, a)
                   q == step(other, a)
               IN  /\ q.raised = r.raised
                   /\ q.score = r.score
                   /\ q.done = r.done
                   /\ q.trunc = r.trunc
                   /\ SameCards(q.g, r.g)
                   /\ q.g.TURN = r.g.TURN

\* a play is due in a state where claims are on record and the active player
\* has a card that is legal on an ascending pile
C19_Witness ==
  /\ PlayState
  /\ op = "step"
  /\ DOMAIN game.claimed_piles # {}
  /\ \E i \in 1..Len(ActiveHand(game)), k \in 0..(Len(game.piles_up) - 1) :
       LegalOn(game, ActiveHand(game)[i], k)

PairCost(g, c, k) ==
  LET T == Tops(g)[k + 1]
      shortcut == IF k < Len(g.piles_up) THEN c = T - 10 ELSE c = T + 10
  IN  IF shortcut THEN (0 - 10) * 10 ELSE Abs(T - c) * 10

C21_GlobalMinimum ==
  PlayState =>
    LET hand == ActiveHand(game)
        best == determine_best_single_card(game.piles_up, game.piles_down, hand,
                                           << >>, game.claimed_piles)
        pairs == {q \in (1..Len(hand)) \X Positions(game) :
                    LegalOn(game, hand[q[1]], q[2])}
    IN  IF pairs = {} THEN best.card = NoCard
        ELSE \E m \in pairs :
               /\ \A q \in pairs :
                    /\ PairCost(game, hand[m[1]], m[2]) <= PairCost(game, hand[q[1]], q[2])
                    /\ PairCost(game, hand[q[1]], q[2]) = PairCost(game, hand[m[1]], m[2])
                         => m[1] <= q[1]
               /\ best.card = hand[m[1]]
               /\ best.score = PairCost(game, hand[m[1]], m[2])
               /\ best.pile = Tops(game)[m[2] + 1]

(***************************************************************************)
(* C24.  The per-turn counter is incremented only by a legal play: a play  *)
(* refused as invalid leaves it, and the rest of the turn bookkeeping,     *)
(* unchanged.                                                              *)
(***************************************************************************)
C24_InvalidKeepsCounter ==
  PlayState =>
    \A a \in PlayActions(game) :
      LET r == step(game, a)
      IN  IsInvalid(r) =>
            /\ r.g.current_player_num_played = game.current_player_num_played
            /\ r.g.TURN = game.TURN
            /\ r.g.num_must_play = game.num_must_play

(***************************************************************************)
(* C27.  A claim submitted in the play phase and a play submitted in the   *)
(* claim phase return the invalid-action outcome (-10, terminal, invalid)  *)
(* and change no part of the game state.                                   *)
(***************************************************************************)
C27_WrongPhaseRefused ==
  ~EpisodeOver =>
    \A a \in Actions(game) :
      LET r == step(game, a)
      IN  a[1] # game.phase => (IsInvalid(r) /\ r.done /\ r.g = game)

\* a play was refused in the claim phase, a claim round being under way
C27_Witness ==
  /\ op = "step"
  /\ IsInvalid(ret)
  /\ ret.done
  /\ game.phase = 1
  /\ game.current_player_num_played < game.num_must_play

(***************************************************************************)
(* C28.  reset() always produces a fresh initial state: play phase, active *)
(* player 0, per-turn counter 0, claim turn 0, no claims, required plays   *)
(* at the configured value, every pile at its start value, every hand of   *)
(* hand_size cards and the rest of the cards in the deck.                  *)
(***************************************************************************)
C28_ResetIsFresh ==
  op = "reset" =>
    /\ game.phase = 0
    /\ game.TURN = 0
    /\ game.current_player_num_played = 0
    /\ game.claim_phase_turn = 0
    /\ game.claimed_piles = << >>
    /\ game.num_must_play = game.num_must_play_init
    /\ \A k \in 1..Len(game.piles_up) : game.piles_up[k] = PILE_START_UP
    /\ \A k \in 1..Len(game.piles_down) : game.piles_down[k] = PILE_START_DOWN
    /\ \A i \in 1..Len(game.hands) : Len(game.hands[i]) = game.hand_size
    /\ Len(game.deck) = NumCards - game.num_players * game.hand_size

(***************************************************************************)
(* C29.  Every hand holds at most hand_size cards, and when the deck is    *)
(* not empty at the start of a turn (play phase, per-turn counter 0) every *)
(* player holds exactly hand_size cards.                                   *)
(***************************************************************************)
C29_HandsFull ==
  /\ \A i \in 1..Len(game.hands) : Len(game.hands[i]) <= game.hand_size
  /\ (game.phase = 0 /\ game.current_player_num_played = 0 /\ Len(game.deck) > 0) =>
       \A i \in 1..Len(game.hands) : Len(game.hands[i]) = game.hand_size

\* a turn starts after a draw that left cards in the deck
C29_Witness ==
  /\ op = "step"
  /\ ~EpisodeOver
  /\ game.phase = 0
  /\ game.current_player_num_played = 0
  /\ Len(game.deck) > 0
  /\ Len(game.deck) < NumCards - game.num_players * game.hand_size

(***************************************************************************)
(* C30.  In the claim phase a claim with any pile code of the action space *)
(* is accepted: score 0, not terminal; neither the invalid-strength nor    *)
(* the already-claimed refusal occurs.                                     *)
(***************************************************************************)
C30_ClaimAccepted ==
  (~EpisodeOver /\ game.phase = 1) =>
    \A code \in 0..(Pow3(NumPiles(game)) - 1) :
      LET r == step(game, <<1, 0, code>>)
      IN  Accepted(r) /\ ~r.trunc /\ r.score = 0

\* the second player of a round claims piles the first player has claimed
C30_Witness ==
  /\ op = "step"
  /\ ~EpisodeOver
  /\ ret.score = 0
  /\ game.num_players = 2
  /\ \E k \in DOMAIN game.claimed_piles : game.claimed_piles[k] = <<0, 1>>

(***************************************************************************)
(* C22.  In play_game started from a state produced by reset(), the card   *)
(* the heuristic selects is a card of the hand, the pile value it returns  *)
(* is found among the ascending or descending tops, the card is legal on   *)
(* the pile the play is applied to and its cost was computed for that      *)
(* direction, and ValueError is never raised.                              *)
(***************************************************************************)
\* a play of play_game has been applied to the piles and hands of g
Played(g) == Len(g.deck) + SumHands(g.hands, 1) < NumCards

C22_SelectionLegal ==
  /\ frame.pc # "ValueError"
  /\ (frame.pc = "for" /\ ~check_if_game_done(game)) =>
       LET hand == game.hands[frame.current_player + 1]
           best == determine_best_single_card(game.piles_up, game.piles_down, hand,
                                              << >>, game.claimed_piles)
       IN  best.card # NoCard =>
             /\ Contains(hand, best.card)
             /\ Contains(game.piles_up, best.pile) \/ Contains(game.piles_down, best.pile)
             /\ IF Contains(game.piles_up, best.pile)
                  THEN /\ LegalUp(best.card, best.pile)
                       /\ best.score = IF best.card = best.pile - 10 THEN (0 - 10) * 10
                                       ELSE (best.card - best.pile) * 10
                ELSE /\ LegalDown(best.card, best.pile)
                     /\ best.score = IF best.card = best.pile + 10 THEN (0 - 10) * 10
                                     ELSE (best.pile - best.card) * 10

\* a pass is about to apply a play to a descending pile, plays having been
\* applied in both directions before
C22_Witness ==
  /\ frame.pc = "for"
  /\ \E k \in 1..Len(game.piles_up) : game.piles_up[k] # PILE_START_UP
  /\ \E k \in 1..Len(game.piles_down) : game.piles_down[k] # PILE_START_DOWN
  /\ LET best == determine_best_single_card(game.piles_up, game.piles_down,
                                            game.hands[frame.current_player + 1],
                                            << >>, game.claimed_piles)
     IN  best.card # NoCard /\ Contains(game.piles_down, best.pile)

(***************************************************************************)
(* C23.  play_game terminates (required plays at least 1): every pass of   *)
(* its for loop either plays one card, lowering the number of cards in the *)
(* deck and all hands by exactly one, or ends the game leaving every card  *)
(* where it is; a measure that is never negative (8 per card left, 4 while *)
(* the game is not done, the rest for the position in the loops) gets      *)
(* smaller with every step of the call, so there are at most NumCards      *)
(* plays; and the call eventually returns.                                 *)
(***************************************************************************)
CardsLeft(g) == Len(g.deck) + SumHands(g.hands, 1)

Variant(g, f) ==
  8 * CardsLeft(g) + (IF f.game_not_done THEN 4 ELSE 0)
    + (CASE f.pc = "turn_end" -> 4
         [] f.pc = "while" -> 3
         [] f.pc = "for" -> 2
         [] OTHER -> 0)

C23_PlayGameTerminates ==
  [][/\ frame.pc = "for" =>
          \/ CardsLeft(game)' = CardsLeft(game) - 1 /\ frame'.game_not_done
          \/ ~frame'.game_not_done /\ game' = game
     /\ frame.pc # "for" => CardsLeft(game)' = CardsLeft(game)
     /\ Variant(game, frame)' < Variant(game, frame)]_vars
  /\ <>(frame.pc = "returned")

\* play_game returned after playing every card of the deck
C23_Witness ==
  /\ frame.pc = "returned"
  /\ ~frame.game_not_done
  /\ CardsLeft(game) = 0

(***************************************************************************)
(* C25.  claim_pile follows the non-downgrade rule: for every pile, if the *)
(* hand holds the pile's shortcut card and the existing claim is weaker    *)
(* than 8 the strength emitted is hard (8), whatever else the hand holds   *)
(* and in whatever order; soft (2) is emitted only when no hard claim      *)
(* applies, some card is 1 or 2 past the top and the existing claim is     *)
(* weaker than 2.                                                          *)
(***************************************************************************)
\* the claims on record when player k (from 1) is asked, in the claim round
\* run on the piles and hands of g
RoundBefore(g, k) == ClaimRound(g, << >>, 1, k - 1)
\* what player k emits in that round
Emitted(g, k) == claim_pile(g.hands[k], g.piles_up, g.piles_down, RoundBefore(g, k))

NonDowngrade(hand, piles, dir, existing, emitted) ==
  \A k \in 1..Len(piles) :
    LET p == piles[k]
        pc == DictGet(existing, p, 0)
        hard == (\E j \in 1..Len(hand) : hand[j] = p - dir * 10) /\ pc < CLAIM_HARD
        near == \E j \in 1..Len(hand) : (hand[j] - p) * dir \in {1, 2}
    IN  /\ hard => DictGet(emitted, p, 0) = CLAIM_HARD
        /\ DictGet(emitted, p, 0) = CLAIM_SOFT => (~hard /\ near /\ pc < CLAIM_SOFT)

C25_NonDowngrade ==
  (op = "play_game" /\ Played(game)) =>
    \A k \in 1..game.num_players :
      /\ NonDowngrade(game.hands[k], game.piles_up, 1, RoundBefore(game, k), Emitted(game, k))
      /\ NonDowngrade(game.hands[k], game.piles_down, 0 - 1, RoundBefore(game, k),
                      Emitted(game, k))

(***************************************************************************)
(* C26.  The claim round after each play of play_game merges by highest    *)
(* strength: the strength recorded for a pile at the end of the round is   *)
(* the highest any player emitted for it, and a claim emitted by a later   *)
(* player never replaces an equal or stronger claim already recorded.      *)
(***************************************************************************)
C26_HighestStrengthWins ==
  (op = "play_game" /\ Played(game)) =>
    LET players == 1..game.num_players
        keys == UNION {DOMAIN Emitted(game, k) : k \in players}
    IN  /\ DOMAIN game.claimed_piles = keys
        /\ \A c \in keys :
             /\ \E k \in players : DictGet(Emitted(game, k), c, 0) = game.claimed_piles[c]
             /\ \A k \in players : DictGet(Emitted(game, k), c, 0) <= game.claimed_piles[c]
        /\ \A k \in players : \A c \in DOMAIN Emitted(game, k) :
             Emitted(game, k)[c] > DictGet(RoundBefore(game, k), c, 0)

\* a round in which the second player's hard claim replaced the first
\* player's soft claim on the same pile
C26_Witness ==
  /\ op = "play_game"
  /\ Played(game)
  /\ game.num_players = 2
  /\ \E c \in DOMAIN game.claimed_piles :
       /\ DictGet(Emitted(game, 1), c, 0) = CLAIM_SOFT
       /\ DictGet(Emitted(game, 2), c, 0) = CLAIM_HARD
       /\ game.claimed_piles[c] = CLAIM_HARD

(***************************************************************************)
(* C31.  set_game_state determines the whole game state from its config:   *)
(* a game with any history that loads a config with an explicit deck is in *)
(* the state a fresh game is in after loading the same config, with the    *)
(* per-turn counter at zero and no recorded claims (step being a function  *)
(* of the state and the action, equal states then behave identically).     *)
(***************************************************************************)
\* a game fresh from the constructor
FreshGame == NewGame(1, 1, 1, <<1, 1>>, AllCards)

C31_LoadFromConfigAlone ==
  \A config \in {c \in SmallConfigs : "deck" \in DOMAIN c} :
    \A first_deck \in FirstDecks(config) :
      \A last_deck \in LastDecks(config, first_deck) :
        LET here == set_game_state(game, config, first_deck, last_deck)
            fresh == set_game_state(FreshGame, config, first_deck, last_deck)
        IN  ~here.raised =>
              /\ here.g = fresh.g
              /\ here.g.current_player_num_played = 0
              /\ here.g.claimed_piles = << >>

(***************************************************************************)
(* C32.  In the observation the claim grid entry for pile position i and   *)
(* player j is nonzero exactly when player j has claimed the pile at       *)
(* position i in the current claim round, and is the strength given (1     *)
(* soft, 2 hard): after an accepted claim the claimant's column holds the  *)
(* digits of the pile code and every other column marks the claims on      *)
(* record.                                                                 *)
(***************************************************************************)
C32_ClaimGrid ==
  (~EpisodeOver /\ game.phase = 1) =>
    \A code \in 0..(Pow3(NumPiles(game)) - 1) :
      LET r == step(game, <<1, 0, code>>)
          pile_list == base_3_conv(code, NumPiles(game))
          claimant == game.claim_phase_turn
      IN  Accepted(r) =>
            \A i \in 0..(NumPiles(game) - 1) :
              \A j \in 0..(game.num_players - 1) :
                IF j = claimant
                  THEN r.obs.claimed_piles[i][j] = pile_list[i + 1]
                ELSE (r.obs.claimed_piles[i][j] # 0)
                       <=> Contains(DictGet(game.claimed_piles, i, << >>), j)

(***************************************************************************)
(* C33.  During play_game every card that has been played is recorded as   *)
(* seen: whenever a heuristic selection is about to be made, every card    *)
(* that has left the deck and the hands is in the seen_cards handed to     *)
(* that selection.                                                         *)
(***************************************************************************)
C33_PlayedCardsSeen ==
  (op = "play_game" /\ frame.pc = "for") =>
    (DeckCards \ SeqSet(HeldCards(game)))
      \subseteq SeqSet(game.seen_cards[frame.current_player + 1])

====
